---- MODULE Spec2Model ----
(***************************************************************************)
(* nps_renamer.py: main() as a state machine.                              *)
(*                                                                         *)
(* A Python str is modelled as a sequence of one-character strings, so     *)
(* that the regular expression pkg_re, str.strip, str.lstrip, str.lower,   *)
(* os.path.splitext, os.path.join and sanitize_file_name are computed the  *)
(* way the interpreter computes them.  Two characters outside ASCII are    *)
(* named by a word: "e_acute" is U+00E9 and "comb_acute" is U+0301.        *)
(***************************************************************************)
EXTENDS Integers, Sequences, FiniteSets, TLC

\* ------------------------------------------------------------------------
\* Characters and the str methods the program uses
\* ------------------------------------------------------------------------

UpperLetters == <<"A","B","C","D","E","F","G","H","I","J","K","L","M","N","O","P","Q","R","S","T","U","V","W","X","Y","Z">>

LowerLetters == <<"a","b","c","d","e","f","g","h","i","j","k","l","m","n","o","p","q","r","s","t","u","v","w","x","y","z">>

Digits == {"0","1","2","3","4","5","6","7","8","9"}

DigitChars == <<"0","1","2","3","4","5","6","7","8","9">>

NonAscii == {"e_acute", "comb_acute"}

Range(s) == {s[i] : i \in 1..Len(s)}

UpperSet == Range(UpperLetters)

LetterSet == Range(UpperLetters) \cup Range(LowerLetters)

Whitespace == {" ", "\t", "\n", "\r"}

IsLetter(c) == c \in LetterSet

IsDigit(c) == c \in Digits

IsSpace(c) == c \in Whitespace

\* the lower-case letter of each upper-case letter
LowerOf == [c \in UpperSet |-> LowerLetters[CHOOSE i \in 1..26 : UpperLetters[i] = c]]

\* str.lower() on one character
LowerChar(c) == IF c \in UpperSet THEN LowerOf[c] ELSE c

\* str.lower()
StrLower(s) == [i \in 1..Len(s) |-> LowerChar(s[i])]

\* equality under re.I
EqFold(s, t) == StrLower(s) = StrLower(t)

\* str.lstrip() / str.rstrip() / str.strip() with the default whitespace set
RECURSIVE LStrip(_)
LStrip(s) == IF s # <<>> /\ IsSpace(Head(s)) THEN LStrip(Tail(s)) ELSE s

RECURSIVE RStrip(_)
RStrip(s) ==
  IF s # <<>> /\ IsSpace(s[Len(s)]) THEN RStrip(SubSeq(s, 1, Len(s) - 1)) ELSE s

Strip(s) == RStrip(LStrip(s))

\* str.lstrip("0")
RECURSIVE LStripZero(_)
LStripZero(s) == IF s # <<>> /\ Head(s) = "0" THEN LStripZero(Tail(s)) ELSE s

\* str(n) for n >= 0, as the f-string of line 267 formats the counter
RECURSIVE IntToStr(_)
IntToStr(n) ==
  IF n < 10 THEN <<DigitChars[n + 1]>>
  ELSE IntToStr(n \div 10) \o <<DigitChars[(n % 10) + 1]>>

\* position of the last occurrence of character c in s, 0 when there is none
\* (str.rfind, one-based)
RFind(s, c) ==
  IF \E i \in 1..Len(s) : s[i] = c
  THEN CHOOSE i \in 1..Len(s) : s[i] = c /\ \A j \in (i + 1)..Len(s) : s[j] # c
  ELSE 0

\* ------------------------------------------------------------------------
\* os.path (posixpath)
\* ------------------------------------------------------------------------

\* os.path.basename
Basename(p) == SubSeq(p, RFind(p, "/") + 1, Len(p))

\* os.path.join of two components
Join(a, b) ==
  IF b # <<>> /\ Head(b) = "/" THEN b
  ELSE IF a = <<>> \/ a[Len(a)] = "/" THEN a \o b
  ELSE a \o <<"/">> \o b

\* os.path.splitext: the extension starts at the last dot of the last
\* component, unless only dots precede it in that component
SplitExt(p) ==
  LET sepIndex == RFind(p, "/")
      dotIndex == RFind(p, ".")
  IN  IF dotIndex > sepIndex
         /\ \E k \in (sepIndex + 1)..(dotIndex - 1) : p[k] # "."
      THEN <<SubSeq(p, 1, dotIndex - 1), SubSeq(p, dotIndex, Len(p))>>
      ELSE <<p, <<>>>>

\* ------------------------------------------------------------------------
\* sanitize_file_name (lines 96-98)
\* ------------------------------------------------------------------------

\* unicodedata.normalize("NFC", value) on the model's alphabet: the one
\* decomposed pair of the alphabet, e + U+0301, composes to U+00E9
RECURSIVE NFC(_)
NFC(s) ==
  IF Len(s) < 2 THEN s
  ELSE IF s[1] = "e" /\ s[2] = "comb_acute"
       THEN <<"e_acute">> \o NFC(SubSeq(s, 3, Len(s)))
       ELSE <<s[1]>> \o NFC(Tail(s))

\* the character class [<>:"/\|?*] of line 98
ForbiddenChars == {"<", ">", ":", "\"", "/", "\\", "|", "?", "*"}

ReplaceForbidden(s) ==
  [i \in 1..Len(s) |-> IF s[i] \in ForbiddenChars THEN "_" ELSE s[i]]

sanitize_file_name(value) == Strip(ReplaceForbidden(NFC(value)))

\* ------------------------------------------------------------------------
\* pkg_re (line 93), compiled with re.I:
\*   ^([A-Z]{2}\d{4}-([A-Z]{4}\d{5})_00-.*?)(?:_patch_(.*?))?\.pkg$
\* ------------------------------------------------------------------------

PatchMark == <<"_","p","a","t","c","h","_">>

PkgSuffix == <<".","p","k","g">>

\* "." of the pattern matches every character but a newline
DotMatches(c) == c # "\n"

\* [A-Z]{2}\d{4}-([A-Z]{4}\d{5})_00- on the first twenty characters
PkgRePrefix(s) ==
  /\ Len(s) >= 20
  /\ \A i \in {1, 2, 8, 9, 10, 11} : IsLetter(s[i])
  /\ \A i \in {3, 4, 5, 6, 12, 13, 14, 15, 16} : IsDigit(s[i])
  /\ s[7] = "-"
  /\ s[17] = "_" /\ s[18] = "0" /\ s[19] = "0"
  /\ s[20] = "-"

\* (?:_patch_(.*?))?\.pkg$ with the optional group taken, group 1 ending at k
TailWithPatch(s, k) ==
  /\ k + 7 <= Len(s) - 4
  /\ EqFold(SubSeq(s, k + 1, k + 7), PatchMark)
  /\ \A i \in (k + 8)..(Len(s) - 4) : DotMatches(s[i])
  /\ EqFold(SubSeq(s, Len(s) - 3, Len(s)), PkgSuffix)

\* the same with the optional group skipped
TailNoPatch(s, k) ==
  /\ k = Len(s) - 4
  /\ EqFold(SubSeq(s, k + 1, Len(s)), PkgSuffix)

\* the ends of group 1 the matcher can accept; the lazy .*? takes the least
PkgReEnds(s) ==
  {k \in 20..Len(s) :
     /\ \A i \in 21..k : DotMatches(s[i])
     /\ (TailWithPatch(s, k) \/ TailNoPatch(s, k))}

\* pkg_re with the first group closed after "_00": the content id without its
\* label
PkgReFindallShort(s) ==
  IF ~PkgRePrefix(s) \/ PkgReEnds(s) = {} THEN <<>>
  ELSE LET k == CHOOSE e \in PkgReEnds(s) : \A o \in PkgReEnds(s) : e <= o
       IN  <<[content_id |-> SubSeq(s, 1, 19),
              title_id   |-> SubSeq(s, 8, 16),
              patch      |-> IF TailWithPatch(s, k)
                             THEN SubSeq(s, k + 8, Len(s) - 4)
                             ELSE <<>>]>>

\* pkg_re.findall(s): the empty list, or one tuple (content_id, title_id, patch)
PkgReFindall(s) ==
  IF ~PkgRePrefix(s) \/ PkgReEnds(s) = {} THEN <<>>
  ELSE LET k == CHOOSE e \in PkgReEnds(s) : \A o \in PkgReEnds(s) : e <= o
       IN  <<[content_id |-> SubSeq(s, 1, k),
              title_id   |-> SubSeq(s, 8, 16),
              patch      |-> IF TailWithPatch(s, k)
                             THEN SubSeq(s, k + 8, Len(s) - 4)
                             ELSE <<>>]>>

\* ------------------------------------------------------------------------
\* TSVInfo, TSVEntry, PKGHeader and the match predicates
\* ------------------------------------------------------------------------

\* TSVInfo.dir_path (lines 26-27)
dir_path(info) == Join(info.console, info.type)

\* TSVEntry.file_name (lines 42-46)
file_name(entry, ext) ==
  IF entry.update_version # <<>>
  THEN Strip(entry.name) \o <<" ", "(">> \o Strip(entry.update_version)
         \o <<")", " ", "[">> \o Strip(entry.title_id) \o <<"]">> \o ext
  ELSE Strip(entry.name) \o <<" ", "[">> \o Strip(entry.title_id) \o <<"]">> \o ext

\* struct.calcsize(">IHH40x36s12x") (line 60)
HeaderSize == 96

\* the magic number of line 72, 0x7F504B47
PKG_MAGIC == 2135968583

\* PKGHeader.load (lines 58-62) returns a header: the file opens (no IOError)
\* and holds the whole header (no struct.error)
HeaderLoads(disk, filename) ==
  /\ filename \in DOMAIN disk
  /\ disk[filename].size >= HeaderSize

\* is_valid comparing with the magic number in the other byte order
is_valid_swapped(header) == header.magic = 1196118143

\* PKGHeader.is_valid (lines 71-72)
is_valid(header) == header.magic = PKG_MAGIC

\* bytes.decode("ascii") of PKGHeader.content_id (lines 64-69) succeeds
DecodesAscii(bytes) == \A i \in 1..Len(bytes) : bytes[i] \notin NonAscii

\* predicate_filename that also compares the content id of an update
predicate_filename_strict(entry, content_id, title_id, patch) ==
  LET stripped == LStripZero(patch)
  IN  IF stripped # <<>>
      THEN entry.content_id = content_id /\ entry.title_id = title_id
             /\ entry.update_version = stripped
      ELSE entry.content_id = content_id /\ entry.title_id = title_id

\* predicate_filename (lines 134-139)
predicate_filename(entry, content_id, title_id, patch) ==
  LET stripped == LStripZero(patch)
  IN  IF stripped # <<>>
      THEN entry.title_id = title_id /\ entry.update_version = stripped
      ELSE entry.content_id = content_id /\ entry.title_id = title_id

\* predicate_content_id_and_size (lines 142-143)
predicate_content_id_and_size(entry, content_id, size) ==
  entry.content_id = content_id /\ entry.file_size = size

\* predicate_hash (lines 146-147)
predicate_hash(entry, sha256) == entry.sha256 = sha256

\* sha256sum (lines 125-131): the digest of the bytes at filename
sha256sum(disk, filename) == disk[filename].sha256

\* next((e for e in entries if ...), None) as the index of the entry, 0 for None
FirstIndex(hits) ==
  IF hits = {} THEN 0 ELSE CHOOSE i \in hits : \A j \in hits : i <= j

\* ------------------------------------------------------------------------
\* The state of main (lines 157-306)
\* ------------------------------------------------------------------------

VARIABLES
  args,            \* the parsed command line: pkg_dir, copy_dir, dry_run, skip_hash
  entries,         \* the catalog, in load order (line 162)
  pkg_files,       \* the list of package paths (lines 195-201)
  disk,            \* the file system: path -> the file at that path
  dirs,            \* the directories makedirs has made (line 273, taken to succeed)
  dupe_paths,      \* lower-cased destination path -> times met again (line 215)
  move_files,      \* the planned (src_path, dest_path) pairs (line 218)
  unhandled_files, \* the files not found in the catalog (line 221)
  idx,             \* position of the planning loop in pkg_files (line 224)
  pos,             \* position of the transfer loop in move_files (line 282)
  pc,              \* "plan", "transfer", "done" (main returned), "error" (it raised)
  stdout,          \* the lines printed from line 208 on
  lookups          \* history: what the planning loop did with each file

vars == <<args, entries, pkg_files, disk, dirs, dupe_paths, move_files,
          unhandled_files, idx, pos, pc, stdout, lookups>>

\* ------------------------------------------------------------------------
\* The planning loop body (lines 224-276)
\* ------------------------------------------------------------------------

\* line 241 without the test of args.skip_hash
ShouldHashAlways(matched, skip_hash) == matched = 0

\* line 241: the hash tier runs when no entry was matched and hashing is on
ShouldHash(matched, skip_hash) == matched = 0 /\ ~skip_hash

\* line 235: the filename tier, as the index of the entry found (0 for None)
ByName(catalog, m) ==
  FirstIndex({i \in DOMAIN catalog :
    predicate_filename(catalog[i], m.content_id, m.title_id, m.patch)})

\* line 239: the header tier
ByHeader(catalog, pkg_header) ==
  FirstIndex({i \in DOMAIN catalog :
    predicate_content_id_and_size(catalog[i], pkg_header.content_id_bytes,
                                  pkg_header.size)})

\* line 245: the hash tier
ByHash(catalog, sha256) ==
  FirstIndex({i \in DOMAIN catalog : predicate_hash(catalog[i], sha256)})

\* lines 232-239: the one tier the if/else of line 232 runs; PKGHeader.content_id
\* may raise UnicodeDecodeError in the header tier
Early(catalog, pkg_header, matches) ==
  IF matches # <<>>
  THEN [tier |-> 1, raised |-> FALSE, entry |-> ByName(catalog, matches[1])]
  ELSE IF ~DecodesAscii(pkg_header.content_id_bytes)
  THEN [tier |-> 2, raised |-> TRUE, entry |-> 0]
  ELSE [tier |-> 2, raised |-> FALSE, entry |-> ByHeader(catalog, pkg_header)]

\* lines 241-245 after the tier of lines 232-239
Late(catalog, files, skip_hash, pkg_file, early) ==
  IF early.raised \/ ~ShouldHash(early.entry, skip_hash)
  THEN [file |-> pkg_file, tiers |-> {early.tier}, raised |-> early.raised,
        early |-> early.entry,
        entry |-> early.entry, tier |-> IF early.entry # 0 THEN early.tier ELSE 0]
  ELSE [file |-> pkg_file, tiers |-> {early.tier, 3}, raised |-> FALSE,
        early |-> early.entry,
        entry |-> ByHash(catalog, sha256sum(files, pkg_file)),
        tier |-> IF ByHash(catalog, sha256sum(files, pkg_file)) # 0 THEN 3 ELSE 0]

\* lines 232-245 for a file whose header loaded and is valid: the tiers tried,
\* the index of the entry the tier of lines 232-239 found (0 for None), the
\* index of matching_entry at line 248, the tier that produced it, and whether
\* PKGHeader.content_id raised
Lookup(catalog, files, skip_hash, pkg_file) ==
  Late(catalog, files, skip_hash, pkg_file,
       Early(catalog, files[pkg_file], PkgReFindall(Basename(pkg_file))))

\* lines 252-255
DestDir(a, entry) ==
  IF a.copy_dir # <<>>
  THEN Join(a.copy_dir, dir_path(entry.info))
  ELSE Join(a.pkg_dir, dir_path(entry.info))

\* lines 257-259
DestFile(entry, pkg_file) ==
  sanitize_file_name(file_name(entry, SplitExt(pkg_file)[2]))

\* lines 266-267: the path with the counter put before the extension
Renamed(dest_dir, dest_file, count) ==
  LET parts == SplitExt(dest_file)
  IN  Join(dest_dir,
           parts[1] \o <<" ", "(">> \o IntToStr(count) \o <<")">> \o parts[2])

\* lines 260-271: the destination path given to a matched file
Allocate(dupes, dest_dir, dest_file) ==
  LET dest_path == Join(dest_dir, dest_file)
      dest_path_lower == StrLower(dest_path)
  IN  IF dest_path_lower \in DOMAIN dupes
      THEN Renamed(dest_dir, dest_file, dupes[dest_path_lower] + 1)
      ELSE dest_path

\* lines 263-271: the counter map after the allocation
Counted(dupes, dest_dir, dest_file) ==
  LET dest_path_lower == StrLower(Join(dest_dir, dest_file))
  IN  IF dest_path_lower \in DOMAIN dupes
      THEN [dupes EXCEPT ![dest_path_lower] = @ + 1]
      ELSE [k \in DOMAIN dupes \cup {dest_path_lower} |->
              IF k = dest_path_lower THEN 0 ELSE dupes[k]]

\* after the last file the loop ends and line 278 is next
AfterFile == IF idx = Len(pkg_files) THEN "transfer" ELSE "plan"

\* one iteration of the loop of line 224
PlanFile ==
  /\ pc = "plan"
  /\ idx <= Len(pkg_files)
  /\ LET pkg_file == pkg_files[idx]
     IN  IF ~HeaderLoads(disk, pkg_file) \/ ~is_valid(disk[pkg_file])
         THEN \* lines 227-230: continue
              /\ pc' = AfterFile
              /\ idx' = idx + 1
              /\ lookups' = Append(lookups,
                   [file |-> pkg_file, tiers |-> {}, raised |-> FALSE,
                    early |-> 0, entry |-> 0, tier |-> 0, dest |-> <<>>])
              /\ UNCHANGED <<dirs, dupe_paths, move_files, unhandled_files, stdout>>
         ELSE LET found == Lookup(entries, disk, args.skip_hash, pkg_file)
                  trying == IF 3 \in found.tiers
                            THEN <<[line |-> "Trying SHA256 for", file |-> pkg_file]>>
                            ELSE <<>>
              IN  IF found.raised
                  THEN \* lines 67-69: the path is printed, the exception ends main
                       /\ pc' = "error"
                       /\ stdout' = Append(stdout, [line |-> "path", file |-> pkg_file])
                       /\ lookups' = Append(lookups, found @@ [dest |-> <<>>])
                       /\ UNCHANGED <<dirs, dupe_paths, move_files, unhandled_files, idx>>
                  ELSE IF found.entry = 0
                  THEN \* lines 248-250
                       /\ pc' = AfterFile
                       /\ idx' = idx + 1
                       /\ unhandled_files' = Append(unhandled_files, pkg_file)
                       /\ stdout' = stdout \o trying
                       /\ lookups' = Append(lookups, found @@ [dest |-> <<>>])
                       /\ UNCHANGED <<dirs, dupe_paths, move_files>>
                  ELSE LET matching_entry == entries[found.entry]
                           dest_dir == DestDir(args, matching_entry)
                           dest_file == DestFile(matching_entry, pkg_file)
                           dest_path == Allocate(dupe_paths, dest_dir, dest_file)
                           renamed ==
                             IF StrLower(Join(dest_dir, dest_file)) \in DOMAIN dupe_paths
                             THEN <<[line |-> "Encountered duplicate destination file path",
                                     path |-> Join(dest_dir, dest_file),
                                     to   |-> Basename(dest_path)]>>
                             ELSE <<>>
                       IN  /\ pc' = AfterFile
                           /\ idx' = idx + 1
                           /\ dupe_paths' = Counted(dupe_paths, dest_dir, dest_file)
                           /\ dirs' = dirs \cup {dest_dir}
                           /\ move_files' = IF pkg_file # dest_path
                                            THEN Append(move_files, <<pkg_file, dest_path>>)
                                            ELSE move_files
                           /\ stdout' = stdout \o trying \o renamed
                           /\ lookups' = Append(lookups, found @@ [dest |-> dest_path])
                           /\ UNCHANGED unhandled_files
  /\ UNCHANGED <<args, entries, pkg_files, disk, pos>>

\* lines 208-210: no package files, main returns
NoPkgFiles ==
  /\ pc = "plan"
  /\ pkg_files = <<>>
  /\ pc' = "done"
  /\ stdout' = Append(stdout, [line |-> "No .pkg files found"])
  /\ UNCHANGED <<args, entries, pkg_files, disk, dirs, dupe_paths, move_files,
                 unhandled_files, idx, pos, lookups>>

\* lines 278-280: nothing planned, main returns
NothingToDo ==
  /\ pc = "transfer"
  /\ move_files = <<>>
  /\ pc' = "done"
  /\ stdout' = Append(stdout, [line |-> "There's nothing to do!"])
  /\ UNCHANGED <<args, entries, pkg_files, disk, dirs, dupe_paths, move_files,
                 unhandled_files, idx, pos, lookups>>

\* ------------------------------------------------------------------------
\* The transfer loop (lines 282-303)
\* ------------------------------------------------------------------------

\* what shutil.copyfile / shutil.move and the timing of lines 288-300 can do:
\* succeed, succeed within one clock tick (elapsed = 0.0, the division of line
\* 300 raises ZeroDivisionError), raise shutil.Error, or raise OSError.  Which
\* one happens is the file system's choice; a copy or move that raises is
\* taken to leave the files as they were.
Outcomes == {"done", "instant", "shutil.Error", "OSError"}

\* "copy" if args.copy_dir else "move" (lines 289, 302, 306)
Verb(a) == IF a.copy_dir # <<>> THEN "copy" ELSE "move"

\* the "Copying"/"Moving" line of lines 290 and 294
Announce(a, src_path, dest_path) ==
  [line |-> IF a.copy_dir # <<>> THEN "Copying" ELSE "Moving",
   src |-> src_path, dest |-> dest_path]

\* line 284 without the comparison of the sizes
AlreadyThereAnySize(files, src_path, dest_path) == dest_path \in DOMAIN files

\* line 284: a file of the source's size is already at the destination
AlreadyThere(files, src_path, dest_path) ==
  /\ dest_path \in DOMAIN files
  /\ files[dest_path].size = files[src_path].size

\* shutil.copyfile (line 292): the destination holds the source's bytes
CopyFile(files, src_path, dest_path) ==
  [p \in DOMAIN files \cup {dest_path} |->
     IF p = dest_path THEN files[src_path] ELSE files[p]]

\* shutil.move (line 296): the same, and the source path is gone
MoveFile(files, src_path, dest_path) ==
  [p \in (DOMAIN files \cup {dest_path}) \ {src_path} |->
     IF p = dest_path THEN files[src_path] ELSE files[p]]

\* the dry-run test present at line 291 and missing at line 295
SuppressedCopyOnly(a) == a.dry_run /\ a.copy_dir # <<>>

\* lines 291 and 295: "if not args.dry_run" guards the copy and the move
Suppressed(a) == a.dry_run

\* lines 289-296
Perform(a, files, src_path, dest_path) ==
  IF a.copy_dir # <<>>
  THEN CopyFile(files, src_path, dest_path)
  ELSE MoveFile(files, src_path, dest_path)

\* one iteration of the loop of line 282
Transfer ==
  /\ pc = "transfer"
  /\ pos <= Len(move_files)
  /\ LET src_path == move_files[pos][1]
         dest_path == move_files[pos][2]
     IN  IF src_path \notin DOMAIN disk
         THEN \* line 283: os.path.getsize raises OSError outside the try block
              /\ pc' = "error"
              /\ UNCHANGED <<disk, pos, stdout>>
         ELSE IF AlreadyThere(disk, src_path, dest_path)
         THEN \* line 285: continue
              /\ pos' = pos + 1
              /\ UNCHANGED <<disk, pc, stdout>>
         ELSE IF Suppressed(args)
         THEN /\ pos' = pos + 1
              /\ stdout' = Append(stdout, Announce(args, src_path, dest_path))
              /\ UNCHANGED <<disk, pc>>
         ELSE \E outcome \in Outcomes :
                CASE outcome = "done" ->
                       /\ disk' = Perform(args, disk, src_path, dest_path)
                       /\ pos' = pos + 1
                       /\ stdout' = stdout \o <<Announce(args, src_path, dest_path),
                                                [line |-> "Took"]>>
                       /\ UNCHANGED pc
                  [] outcome = "instant" ->
                       /\ disk' = Perform(args, disk, src_path, dest_path)
                       /\ pc' = "error"
                       /\ stdout' = Append(stdout, Announce(args, src_path, dest_path))
                       /\ UNCHANGED pos
                  [] outcome = "shutil.Error" ->
                       \* lines 301-303: reported, then raised again
                       /\ pc' = "error"
                       /\ stdout' = stdout \o <<Announce(args, src_path, dest_path),
                                                [line |-> "Unable to", verb |-> Verb(args),
                                                 src |-> src_path, dest |-> dest_path]>>
                       /\ UNCHANGED <<disk, pos>>
                  [] outcome = "OSError" ->
                       \* not a shutil.Error: line 301 does not catch it
                       /\ pc' = "error"
                       /\ stdout' = Append(stdout, Announce(args, src_path, dest_path))
                       /\ UNCHANGED <<disk, pos>>
  /\ UNCHANGED <<args, entries, pkg_files, dirs, dupe_paths, move_files,
                 unhandled_files, idx, lookups>>

\* lines 305-306: the loop over unhandled_files, then main returns
ReportUnhandled ==
  /\ pc = "transfer"
  /\ move_files # <<>>
  /\ pos > Len(move_files)
  /\ pc' = "done"
  /\ stdout' = stdout \o [i \in 1..Len(unhandled_files) |->
                           [line |-> "Couldn't", verb |-> Verb(args),
                            file |-> unhandled_files[i]]]
  /\ UNCHANGED <<args, entries, pkg_files, disk, dirs, dupe_paths, move_files,
                 unhandled_files, idx, pos, lookups>>

Next == NoPkgFiles \/ PlanFile \/ NothingToDo \/ Transfer \/ ReportUnhandled

\* ------------------------------------------------------------------------
\* The catalog and the package files the runs are drawn from
\* ------------------------------------------------------------------------

\* "ABCD12345"
TitleA == <<"A","B","C","D","1","2","3","4","5">>

\* "NPUB00001"
TitleN == <<"N","P","U","B","0","0","0","0","1">>

\* "UP1234-ABCD12345_00"
CidShort == <<"U","P","1","2","3","4","-">> \o TitleA \o <<"_","0","0">>

\* "UP1234-ABCD12345_00-TESTGAME"
CidGame == CidShort \o <<"-","T","E","S","T","G","A","M","E">>

\* "EP9999-ABCD12345_00-UPDATE"
CidUpdate == <<"E","P","9","9","9","9","-">> \o TitleA \o <<"_","0","0","-","U","P","D","A","T","E">>

\* "UP0001-NPUB00001_00-0000000000000001", the 36 bytes of a header field
CidN1 == <<"U","P","0","0","0","1","-">> \o TitleN \o <<"_","0","0","-">>
           \o <<"0","0","0","0","0","0","0","0","0","0","0","0","0","0","0","1">>

\* "UP0001-NPUB00001_00-0000000000000002"
CidN2 == <<"U","P","0","0","0","1","-">> \o TitleN \o <<"_","0","0","-">>
           \o <<"0","0","0","0","0","0","0","0","0","0","0","0","0","0","0","2">>

\* "UP0001-NPUB00001_00-0000000000000009", in no catalog record
CidN9 == <<"U","P","0","0","0","1","-">> \o TitleN \o <<"_","0","0","-">>
           \o <<"0","0","0","0","0","0","0","0","0","0","0","0","0","0","0","9">>

\* a header field holding a byte >= 0x80
CidBad == <<"U","P","0","0","0","1","-">> \o TitleN \o <<"_","0","0","-">>
           \o <<"0","0","0","0","0","0","0","0","0","0","0","0","0","0","0","e_acute">>

\* "Test Game"
NameGame == <<"T","e","s","t"," ","G","a","m","e">>

\* "Mr. X"
NameMrX == <<"M","r","."," ","X">>

\* "Mr (1). X"
NameMr1X == <<"M","r"," ","(","1",")","."," ","X">>

\* "1.02"
Version102 == <<"1",".","0","2">>

\* info["PS3_GAMES.tsv"] and info["PSV_UPDATES.tsv"] (lines 79, 90)
PS3Game == [console |-> <<"P","S","3">>, type |-> <<"g","a","m","e">>]

PSVUpdate == [console |-> <<"P","S","V">>, type |-> <<"u","p","d","a","t","e">>]

\* the rows of the catalog as lines 175-185 build them (a missing File Size
\* column is 0, a missing SHA256 column is the empty string)
Catalog ==
  << [title_id |-> TitleA, name |-> NameGame, content_id |-> CidShort,
      update_version |-> <<>>, file_size |-> 0, sha256 |-> "", info |-> PS3Game],
     [title_id |-> TitleA, name |-> NameGame, content_id |-> CidGame,
      update_version |-> <<>>, file_size |-> 200, sha256 |-> "sha-game", info |-> PS3Game],
     [title_id |-> TitleA, name |-> NameGame, content_id |-> CidUpdate,
      update_version |-> Version102, file_size |-> 300, sha256 |-> "sha-update", info |-> PSVUpdate],
     [title_id |-> TitleA, name |-> NameGame, content_id |-> CidGame,
      update_version |-> Version102, file_size |-> 400, sha256 |-> "sha-update2", info |-> PSVUpdate],
     [title_id |-> TitleN, name |-> NameMrX, content_id |-> CidN1,
      update_version |-> <<>>, file_size |-> 200, sha256 |-> "sha-mrx", info |-> PS3Game],
     [title_id |-> TitleN, name |-> NameMr1X, content_id |-> CidN2,
      update_version |-> <<>>, file_size |-> 300, sha256 |-> "sha-mr1x", info |-> PS3Game] >>

Reverse(s) == [i \in 1..Len(s) |-> s[Len(s) + 1 - i]]

\* args.pkg_dir "p" and the args.copy_dir "o" of a copying run
PkgDir == <<"p">>

CopyDir == <<"o">>

DotPkg == <<".","p","k","g">>

InPkgDir(name) == Join(PkgDir, name)

\* p/UP1234-ABCD12345_00-TESTGAME.pkg
GamePkg == InPkgDir(CidGame \o DotPkg)

\* p/UP1234-ABCD12345_00-OTHER.pkg
OtherPkg == InPkgDir(CidShort \o <<"-","O","T","H","E","R">> \o DotPkg)

\* p/UP1234-ABCD12345_00-TESTGAME_patch_01.02.pkg
PatchPkg == InPkgDir(CidGame \o <<"_","p","a","t","c","h","_","0","1",".","0","2">> \o DotPkg)

\* p/UP1234-ABCD12345_00-TESTGAME_patch_00.pkg
ZeroPatchPkg == InPkgDir(CidGame \o <<"_","p","a","t","c","h","_","0","0">> \o DotPkg)

\* p/random.pkg, p/hashed.pkg, p/stray.pkg, p/broken.pkg, p/short.pkg,
\* p/gone.pkg, p/latin.pkg
RandomPkg == InPkgDir(<<"r","a","n","d","o","m">> \o DotPkg)

HashedPkg == InPkgDir(<<"h","a","s","h","e","d">> \o DotPkg)

StrayPkg == InPkgDir(<<"s","t","r","a","y">> \o DotPkg)

BrokenPkg == InPkgDir(<<"b","r","o","k","e","n">> \o DotPkg)

ShortPkg == InPkgDir(<<"s","h","o","r","t">> \o DotPkg)

GonePkg == InPkgDir(<<"g","o","n","e">> \o DotPkg)

LatinPkg == InPkgDir(<<"l","a","t","i","n">> \o DotPkg)

\* p/a, p/b, p/c: paths of an imported list that carry no extension
PlainA == InPkgDir(<<"a">>)

PlainB == InPkgDir(<<"b">>)

PlainC == InPkgDir(<<"c">>)

\* "Test Game [ABCD12345].pkg" below PS3/game of the package directory (found
\* there by the recursive scan of line 201) and of the copy directory
ResidentP == Join(Join(PkgDir, dir_path(PS3Game)),
                  NameGame \o <<" ","[">> \o TitleA \o <<"]">> \o DotPkg)

ResidentO == Join(Join(CopyDir, dir_path(PS3Game)),
                  NameGame \o <<" ","[">> \o TitleA \o <<"]">> \o DotPkg)

\* a file: the header fields PKGHeader.load reads, its size in bytes and the
\* SHA-256 of its bytes
File(magic, cid, size, sha) ==
  [magic |-> magic, content_id_bytes |-> cid, size |-> size, sha256 |-> sha]

\* the files on disk before the run; 1196118143 is 0x474B507F, the magic
\* number read in the wrong byte order
Files ==
  [p \in {GamePkg, OtherPkg, PatchPkg, ZeroPatchPkg, RandomPkg, HashedPkg,
          StrayPkg, BrokenPkg, ShortPkg, LatinPkg, PlainA, PlainB, PlainC,
          ResidentP, ResidentO} |->
     CASE p = GamePkg      -> File(PKG_MAGIC, CidN9, 250, "sha-g")
       [] p = OtherPkg     -> File(PKG_MAGIC, CidN9, 260, "sha-o")
       [] p = PatchPkg     -> File(PKG_MAGIC, CidN9, 300, "sha-update")
       [] p = ZeroPatchPkg -> File(PKG_MAGIC, CidN9, 200, "sha-z")
       [] p = RandomPkg    -> File(PKG_MAGIC, CidN1, 200, "sha-mrx")
       [] p = HashedPkg    -> File(PKG_MAGIC, CidN1, 270, "sha-update")
       [] p = StrayPkg     -> File(PKG_MAGIC, CidN9, 280, "sha-s")
       [] p = BrokenPkg    -> File(1196118143, CidN1, 200, "sha-mrx")
       [] p = ShortPkg     -> File(PKG_MAGIC, <<>>, 50, "sha-mr1x")
       [] p = LatinPkg     -> File(PKG_MAGIC, CidBad, 200, "sha-l")
       [] p = PlainA       -> File(PKG_MAGIC, CidN1, 200, "sha-a")
       [] p = PlainB       -> File(PKG_MAGIC, CidN1, 200, "sha-b")
       [] p = PlainC       -> File(PKG_MAGIC, CidN2, 300, "sha-c")
       [] p = ResidentP    -> File(PKG_MAGIC, CidN1, 200, "sha-r")
       [] p = ResidentO    -> File(PKG_MAGIC, CidN1, 200, "sha-r")]

\* the longest list of package files a run is given
MaxFiles == 3

\* the lists without repetition of at most MaxFiles of the paths in pool
Lists(pool) ==
  UNION {{l \in [1..n -> pool] : \A i, j \in 1..n : i # j => l[i] # l[j]} :
           n \in 0..MaxFiles}

\* the lists of at most MaxFiles of the paths in pool; an imported list
\* (lines 195-199) may name a path more than once
Listings(pool) == UNION {[1..n -> pool] : n \in 0..MaxFiles}

\* the state when line 208 is reached
InitWith(lists, catalogs, present) ==
  /\ args \in [pkg_dir : {PkgDir}, copy_dir : {<<>>, CopyDir},
               dry_run : BOOLEAN, skip_hash : BOOLEAN]
  /\ entries \in catalogs
  /\ pkg_files \in lists
  /\ disk = [p \in present |-> Files[p]]
  /\ dirs = {}
  /\ dupe_paths = <<>>
  /\ move_files = <<>>
  /\ unhandled_files = <<>>
  /\ idx = 1
  /\ pos = 1
  /\ pc = "plan"
  /\ stdout = <<>>
  /\ lookups = <<>>

\* files of every kind the three tiers tell apart
Init ==
  InitWith(Lists({OtherPkg, RandomPkg, HashedPkg, StrayPkg, BrokenPkg, ShortPkg,
                  GonePkg, LatinPkg}),
           {Catalog},
           {OtherPkg, RandomPkg, HashedPkg, StrayPkg, BrokenPkg, ShortPkg, LatinPkg})

Spec == Init /\ [][Next]_vars

\* files still carrying their canonical names, under both load orders
InitNames ==
  InitWith(Lists({GamePkg, OtherPkg, PatchPkg, ZeroPatchPkg, BrokenPkg}),
           {Catalog, Reverse(Catalog)},
           {GamePkg, OtherPkg, PatchPkg, ZeroPatchPkg, BrokenPkg})

SpecNames == InitNames /\ [][Next]_vars

\* an imported list with paths that carry no extension
InitPlan ==
  InitWith(Lists({PlainA, PlainB, PlainC, GamePkg, ZeroPatchPkg, StrayPkg}),
           {Catalog},
           {PlainA, PlainB, PlainC, GamePkg, ZeroPatchPkg, StrayPkg})

SpecPlan == InitPlan /\ [][Next]_vars

\* a package directory and a copy directory that earlier runs have filled,
\* and lists that may repeat a path
InitXfer ==
  InitWith(Listings({GamePkg, ZeroPatchPkg, RandomPkg, StrayPkg, ResidentP}),
           {Catalog},
           {GamePkg, ZeroPatchPkg, RandomPkg, StrayPkg, ResidentP, ResidentO})

SpecXfer == InitXfer /\ [][Next]_vars

\* ------------------------------------------------------------------------
\* Properties
\* ------------------------------------------------------------------------

HasPrefix(s, t) == Len(s) >= Len(t) /\ SubSeq(s, 1, Len(t)) = t

HasSuffix(s, t) == Len(s) >= Len(t) /\ SubSeq(s, Len(s) - Len(t) + 1, Len(s)) = t

Contains(s, t) == \E k \in 0..(Len(s) - Len(t)) : SubSeq(s, k + 1, k + Len(t)) = t

\* the printed "Couldn't ... because it was not found in the TSV files" lines
Reported == {stdout[k].file : k \in {j \in 1..Len(stdout) : stdout[j].line = "Couldn't"}}

\* the output directory of the run: the copy directory, else the package directory
OutDir == IF args.copy_dir # <<>> THEN args.copy_dir ELSE args.pkg_dir

\* {out}/{platform}/{type}/name
UnderOut(entry, name) ==
  Join(Join(OutDir, Join(entry.info.console, entry.info.type)), name)

\* "N [T]" of an entry without update version
PlainTitle(entry) == entry.name \o <<" ", "[">> \o entry.title_id \o <<"]">>

\* C1: when main has returned, every file of the unhandled list has been
\* reported as not found in the catalog.
C1_UnhandledReported ==
  pc = "done" =>
    \A i \in 1..Len(unhandled_files) : unhandled_files[i] \in Reported

\* C2 as stated: a record with contentId C of the form XX9999-T_00 and empty
\* updateVersion takes, by the filename tier, every valid file named
\* C-<anything>.pkg without a _patch_ part, which is planned for
\* {out}/{platform}/{type}/N [T].pkg and is not unhandled.
C2_ShortContentIdMatches ==
  \A i \in 1..Len(lookups) : \A e \in DOMAIN entries :
    LET f == lookups[i].file
        b == Basename(f)
        r == entries[e]
    IN  ( /\ lookups[i].tiers # {}
          /\ r.update_version = <<>>
          /\ Len(r.content_id) = 19
          /\ PkgRePrefix(r.content_id \o <<"-">>)
          /\ SubSeq(r.content_id, 8, 16) = r.title_id
          /\ HasPrefix(b, r.content_id \o <<"-">>)
          /\ HasSuffix(b, DotPkg)
          /\ ~Contains(b, PatchMark) )
        => /\ lookups[i].tier = 1
           /\ lookups[i].entry = e
           /\ lookups[i].dest = UnderOut(r, PlainTitle(r) \o DotPkg)
           /\ \A u \in 1..Len(unhandled_files) : unhandled_files[u] # f

\* the destination names C2 allows: N [T].pkg trimmed and sanitized, or that name with
\* " (k)" before the extension when the path had been given out before
C2_Names(r) ==
  LET trimmed == [r EXCEPT !.name = Strip(r.name), !.title_id = Strip(r.title_id)]
      plain == sanitize_file_name(PlainTitle(trimmed) \o DotPkg)
  IN  {plain} \cup {SplitExt(plain)[1] \o <<" ", "(">> \o IntToStr(k) \o <<")">> \o DotPkg :
                      k \in 1..MaxFiles}

\* C2 (amended): the record takes the file when its contentId is the whole
\* base name without ".pkg" (XX9999-T_00-<anything>) and no earlier record has
\* the same contentId and titleId; the file is matched by the filename tier,
\* gets the destination {out}/{platform}/{type}/N [T].pkg (with " (k)" before
\* the extension if that path was already given out in the run), is planned
\* for transfer unless it already lies there, and is not unhandled.
C2_FullContentIdMatches ==
  \A i \in 1..Len(lookups) : \A e \in DOMAIN entries :
    LET f == lookups[i].file
        b == Basename(f)
        r == entries[e]
    IN  ( /\ lookups[i].tiers # {}
          /\ r.update_version = <<>>
          /\ PkgRePrefix(r.content_id)
          /\ SubSeq(r.content_id, 8, 16) = r.title_id
          /\ b = r.content_id \o DotPkg
          /\ ~Contains(b, PatchMark)
          /\ \A o \in 1..(e - 1) :
               ~(entries[o].content_id = r.content_id /\ entries[o].title_id = r.title_id) )
        => /\ lookups[i].tier = 1
           /\ lookups[i].entry = e
           /\ \E n \in C2_Names(r) : lookups[i].dest = UnderOut(r, n)
           /\ (f # lookups[i].dest =>
                 \E m \in 1..Len(move_files) : move_files[m] = <<f, lookups[i].dest>>)
           /\ \A u \in 1..Len(unhandled_files) : unhandled_files[u] # f

\* C2 witness: the file UP1234-ABCD12345_00-TESTGAME.pkg has been matched by
\* the filename tier to a record without update version and planned.
C2_Witness ==
  \E i \in 1..Len(lookups) :
    /\ lookups[i].file = GamePkg
    /\ lookups[i].tier = 1
    /\ entries[lookups[i].entry].update_version = <<>>
    /\ \E m \in 1..Len(move_files) : move_files[m][1] = GamePkg

\* the patch of a file name without its leading zeros
C9_Patch(patch) ==
  IF \A k \in 1..Len(patch) : patch[k] = "0" THEN <<>>
  ELSE SubSeq(patch, CHOOSE k \in 1..Len(patch) :
                       patch[k] # "0" /\ \A j \in 1..(k - 1) : patch[j] = "0",
              Len(patch))

\* the records C9 says the filename tier may take for name parts m
C9_Eligible(m) ==
  IF C9_Patch(m.patch) # <<>>
  THEN {e \in DOMAIN entries :
          /\ entries[e].title_id = m.title_id
          /\ entries[e].update_version = C9_Patch(m.patch)}
  ELSE {e \in DOMAIN entries :
          /\ entries[e].content_id = m.content_id
          /\ entries[e].title_id = m.title_id}

\* C9: for a file whose base name matches the pattern, the filename tier
\* selects the first record in load order with the name's title id and the
\* update version equal to the patch without leading zeros when that is not
\* empty, whatever the record's content id; with an empty or all-zero patch
\* the first record with the name's content id and title id; no other record.
C9_FilenameTierSelection ==
  \A i \in 1..Len(lookups) :
    1 \in lookups[i].tiers =>
      LET m == PkgReFindall(Basename(lookups[i].file))[1]
          eligible == C9_Eligible(m)
      IN  IF eligible = {}
          THEN lookups[i].early = 0 /\ lookups[i].tier # 1
          ELSE /\ lookups[i].tier = 1
               /\ lookups[i].entry \in eligible
               /\ \A e \in eligible : lookups[i].entry <= e

\* C9 witness: a file with patch 01.02 took a record whose content id is not
\* the one of its file name, and a file with patch 00 took a record by
\* content id and title id.
C9_Witness ==
  /\ \E i \in 1..Len(lookups) :
       /\ lookups[i].file = PatchPkg
       /\ lookups[i].tier = 1
       /\ entries[lookups[i].entry].content_id # CidGame
       /\ entries[lookups[i].entry].update_version = Version102
  /\ \E i \in 1..Len(lookups) :
       /\ lookups[i].file = ZeroPatchPkg
       /\ lookups[i].tier = 1
       /\ entries[lookups[i].entry].content_id = CidGame

\* the files for which "Trying SHA256 for" was printed: those hashed
Hashed == {stdout[k].file : k \in {j \in 1..Len(stdout) : stdout[j].line = "Trying SHA256 for"}}

\* C3: no two different source files are given the same destination path,
\* compared case-insensitively.
C3_DistinctDestinations ==
  \A i, j \in 1..Len(lookups) :
    ( /\ lookups[i].file # lookups[j].file
      /\ lookups[i].dest # <<>>
      /\ lookups[j].dest # <<>> )
    => StrLower(lookups[i].dest) # StrLower(lookups[j].dest)

\* C4 as stated: a file is hashed only if the header tier (tier 2) was tried
\* for it and found no record, and hashing is not disabled.
C4_HashOnlyAfterHeaderTier ==
  \A i \in 1..Len(lookups) :
    lookups[i].file \in Hashed =>
      /\ 2 \in lookups[i].tiers
      /\ lookups[i].early = 0
      /\ ~args.skip_hash

\* C4 (amended): a file is hashed only if the one earlier tier tried for it
\* (the filename tier when its base name matches the pattern, the header tier
\* otherwise) found no record, and hashing is not disabled.
C4_HashOnlyAfterEarlierTier ==
  \A i \in 1..Len(lookups) :
    lookups[i].file \in Hashed =>
      /\ lookups[i].tiers \ {3} =
           (IF PkgReFindall(Basename(lookups[i].file)) # <<>> THEN {1} ELSE {2})
      /\ lookups[i].early = 0
      /\ ~args.skip_hash

\* C4 witness: one file was hashed after the filename tier found nothing, and
\* one was matched by its hash after the header tier found nothing.
C4_Witness ==
  /\ \E i \in 1..Len(lookups) :
       lookups[i].file = OtherPkg /\ OtherPkg \in Hashed /\ lookups[i].tiers = {1, 3}
  /\ \E i \in 1..Len(lookups) :
       lookups[i].file = HashedPkg /\ lookups[i].tiers = {2, 3} /\ lookups[i].tier = 3

\* the file at path f before the run has no header that reads in full with
\* the magic number 0x7F504B47
C5_Invalid(f) ==
  \/ f \notin DOMAIN Files
  \/ Files[f].size < HeaderSize
  \/ Files[f].magic # 2135968583

\* C5: a file without a valid header is neither a source of the transfer
\* list nor in the unhandled list, is never hashed, and the planning step
\* that meets it leaves the duplicate-path counter map as it was.
C5_InvalidExcluded ==
  /\ [](\A i \in 1..Len(lookups) :
          C5_Invalid(lookups[i].file) =>
            /\ \A m \in 1..Len(move_files) : move_files[m][1] # lookups[i].file
            /\ \A u \in 1..Len(unhandled_files) : unhandled_files[u] # lookups[i].file
            /\ lookups[i].file \notin Hashed)
  /\ [][(pc = "plan" /\ idx <= Len(pkg_files) /\ C5_Invalid(pkg_files[idx]))
          => dupe_paths' = dupe_paths]_vars

\* C5 witness: the planning loop has ended after meeting a file with a wrong
\* magic number and a file too short for a header, with a transfer planned
\* and another file unhandled.
C5_Witness ==
  /\ pc = "transfer"
  /\ \E i \in 1..Len(lookups) : lookups[i].file = BrokenPkg
  /\ move_files # <<>>
  /\ dupe_paths # <<>>

\* the "Copying"/"Moving" lines printed so far, in order
Announced == SelectSeq(stdout, LAMBDA l : l.line \in {"Copying", "Moving"})

\* the pair finds a file of its source's size at its destination
SameSizeAtDest(pair) ==
  /\ pair[2] \in DOMAIN disk
  /\ disk[pair[2]].size = disk[pair[1]].size

\* the line the run prints for a pair it does not skip
LineOf(pair) ==
  [line |-> IF args.copy_dir # <<>> THEN "Copying" ELSE "Moving",
   src |-> pair[1], dest |-> pair[2]]

\* the pair whose turn it is
Turn == move_files[pos]

AtTurn == pc = "transfer" /\ pos <= Len(move_files)

\* C6: with dry-run no step changes a file: every source stays at its path,
\* no destination is created or replaced; and the pairs gone through so far
\* that were not skipped each have their "Copying"/"Moving" line, in order.
C6_DryRunSuppresses ==
  /\ [][args.dry_run => disk' = disk]_vars
  /\ []((args.dry_run /\ pc \in {"transfer", "done"}) =>
          /\ \A m \in 1..Len(move_files) : move_files[m][1] \in DOMAIN disk
          /\ LET shown == SelectSeq(SubSeq(move_files, 1, pos - 1),
                                    LAMBDA pair : ~SameSizeAtDest(pair))
             IN  Announced = [k \in 1..Len(shown) |-> LineOf(shown[k])])

\* C6 witness: a dry run has gone through its whole plan, in which one pair
\* was skipped and another was announced.
C6_Witness ==
  /\ args.dry_run
  /\ pc = "done"
  /\ Len(Announced) >= 1
  /\ Len(Announced) < Len(move_files)

\* C7 as stated: a pair that finds a file of its source's size at its
\* destination is skipped without error and the loop goes on; for every other
\* pair the copy or move is carried out (it changes the disk or it fails).
C7_SkipElsePerform ==
  [][(AtTurn /\ Turn[1] \in DOMAIN disk) =>
       IF SameSizeAtDest(Turn)
       THEN disk' = disk /\ stdout' = stdout /\ pc' = "transfer" /\ pos' = pos + 1
       ELSE disk' # disk \/ pc' = "error"]_vars

\* C7 (amended): a pair whose source is gone ends the run with an error; a
\* pair that finds a file of its source's size at its destination is skipped
\* without error and the loop goes on; for every other pair the line is
\* printed and, unless dry-run is on, the copy or move is attempted: the
\* destination then holds the source's file (and a moved source is gone), or
\* the run ends with an error.  With dry-run the disk stays as it is.
C7_SkipElseAttempt ==
  [][AtTurn =>
       IF Turn[1] \notin DOMAIN disk
       THEN disk' = disk /\ pc' = "error"
       ELSE IF SameSizeAtDest(Turn)
       THEN disk' = disk /\ stdout' = stdout /\ pc' = "transfer" /\ pos' = pos + 1
       ELSE /\ Len(stdout') > Len(stdout)
            /\ stdout'[Len(stdout) + 1] = LineOf(Turn)
            /\ IF args.dry_run
               THEN disk' = disk /\ pc' = "transfer" /\ pos' = pos + 1
               ELSE \/ pc' = "error"
                    \/ /\ pos' = pos + 1
                       /\ Turn[2] \in DOMAIN disk'
                       /\ disk'[Turn[2]] = disk[Turn[1]]
                       /\ (args.copy_dir = <<>> => Turn[1] \notin DOMAIN disk')
                       /\ (args.copy_dir # <<>> => Turn[1] \in DOMAIN disk')]_vars

\* C7 witness: a run without dry-run has skipped one pair and transferred
\* another.
C7_Witness ==
  /\ ~args.dry_run
  /\ pc = "done"
  /\ Len(Announced) >= 1
  /\ Len(Announced) < Len(move_files)

\* C8: a copy or move that fails is reported with the source and destination
\* paths, and the run stops there: no step follows the error.
C8_FailureReportedAndFatal ==
  /\ [][(AtTurn /\ Turn[1] \in DOMAIN disk /\ ~SameSizeAtDest(Turn)
           /\ pc' = "error" /\ disk' = disk)
          => /\ stdout' # <<>>
             /\ stdout'[Len(stdout')].line = "Unable to"
             /\ stdout'[Len(stdout')].src = Turn[1]
             /\ stdout'[Len(stdout')].dest = Turn[2]]_vars
  /\ [][pc # "error"]_vars

\* C10: in move mode without dry-run, no move has put its destination over
\* the source of a pair still waiting: a file at such a source path is the
\* file that was there when the run began.
C10_WaitingSourcesIntact ==
  (args.copy_dir = <<>> /\ ~args.dry_run /\ pc = "transfer") =>
    \A m \in pos..Len(move_files) :
      move_files[m][1] \in DOMAIN disk =>
        disk[move_files[m][1]] = Files[move_files[m][1]]

====
